---- MODULE Spec2Model ----
(***************************************************************************)
(* Model of the pyflwdir-rs flow-direction engine:                         *)
(*   core_d8.rs  direction codec and grid <-> downstream-index conversion  *)
(*   core.rs     rank, upstream_count, upstream_matrix, pit_indices,       *)
(*               idxs_seq, main_upstream                                   *)
(*   flwdir.rs   FlwdirRaster (from_array, accuflux, rank cache, is_valid) *)
(* Arrays are functions over 0..n-1 so that cell indices are the source's  *)
(* 0-based linear indices; Vecs are sequences holding such indices.        *)
(***************************************************************************)
EXTENDS Integers, Sequences, FiniteSets, TLC

VARIABLES
    d8,     \* the input grid handed to from_array: [nrows, ncols, data]
    flw,    \* the FlwdirRaster instance (record of its fields)
    acc,    \* locals of a running FlwdirRaster::accuflux call
    arr,    \* a downstream array handed directly to a core.rs function
    rk,     \* locals of a running core::rank call
    out     \* value returned by the last completed core.rs call

vars == <<d8, flw, acc, arr, rk, out>>

(***************************************************************************)
(* Bounds of the model.                                                    *)
(***************************************************************************)
MaxCells == 4       \* grids have 1 .. MaxCells cells (every shape r*c)
MaxN == 4           \* raw downstream arrays have 1 .. MaxN entries

(***************************************************************************)
(* core_d8.rs: constants and lookup tables.                                *)
(***************************************************************************)
D8_N == 64
D8_NE == 128
D8_E == 1
D8_SE == 2
D8_S == 4
D8_SW == 8
D8_W == 16
D8_NW == 32
D8_PIT == 0
D8_NODATA == 255

Bytes == 0..255

DR_LOOKUP ==
    [b \in Bytes |->
        IF b \in {D8_N, D8_NE, D8_NW} THEN -1
        ELSE IF b \in {D8_SE, D8_S, D8_SW} THEN 1
        ELSE 0]

DC_LOOKUP ==
    [b \in Bytes |->
        IF b \in {D8_NE, D8_E, D8_SE} THEN 1
        ELSE IF b \in {D8_SW, D8_W, D8_NW} THEN -1
        ELSE 0]

VALID_LOOKUP ==
    [b \in Bytes |->
        b \in {D8_N, D8_NE, D8_E, D8_SE, D8_S, D8_SW, D8_W, D8_NW, D8_PIT}]

drdc(b) == <<DR_LOOKUP[b], DC_LOOKUP[b]>>

(***************************************************************************)
(* Grids.  data is row-major over 0..size-1, as ndarray's d8[[row, col]].  *)
(***************************************************************************)
GridSize(g) == g.nrows * g.ncols

GridAt(g, row, col) == g.data[row * g.ncols + col]

\* Byte values placed in the cells of the input grids: the eight compass
\* codes, PIT, NODATA and one further unrecognised byte.
Codes == {D8_E, D8_SE, D8_S, D8_SW, D8_W, D8_NW, D8_N, D8_NE, D8_PIT, D8_NODATA, 3}

Shapes == {s \in (1..MaxCells) \X (1..MaxCells) : s[1] * s[2] <= MaxCells}

\* g is a grid of one of the bounded shapes with cells drawn from Codes
IsGrid(g) ==
    \E s \in Shapes :
        \E f \in [0..(s[1] * s[2] - 1) -> Codes] :
            g = [nrows |-> s[1], ncols |-> s[2], data |-> f]

NoGrid == [nrows |-> 0, ncols |-> 0, data |-> <<>>]

(***************************************************************************)
(* core_d8.rs: d8_from_array.  The chunked loop (lines 76-106) and the     *)
(* remainder loop (lines 109-132) run the same body on disjoint index      *)
(* ranges that together cover 0..size-1; D8CellDs is that body.            *)
(***************************************************************************)
D8CellDsNoColCheck(g, idx) ==
    LET row == idx \div g.ncols
        col == idx % g.ncols
        d8_val == GridAt(g, row, col)
        row_ds == row + DR_LOOKUP[d8_val]
        col_ds == col + DC_LOOKUP[d8_val]
    IN  IF d8_val = D8_PIT THEN idx
        ELSE IF VALID_LOOKUP[d8_val]
             THEN IF row_ds >= 0 /\ row_ds < g.nrows
                  THEN row_ds * g.ncols + col_ds
                  ELSE idx
             ELSE idx

D8CellDs(g, idx) ==
    LET row == idx \div g.ncols
        col == idx % g.ncols
        d8_val == GridAt(g, row, col)
        row_ds == row + DR_LOOKUP[d8_val]
        col_ds == col + DC_LOOKUP[d8_val]
    IN  IF d8_val = D8_PIT THEN idx
        ELSE IF VALID_LOOKUP[d8_val]
             THEN IF row_ds >= 0 /\ row_ds < g.nrows /\ col_ds >= 0 /\ col_ds < g.ncols
                  THEN row_ds * g.ncols + col_ds
                  ELSE idx
             ELSE idx

d8_from_array(g) == [idx \in 0..(GridSize(g) - 1) |-> D8CellDs(g, idx)]

(***************************************************************************)
(* core_d8.rs: d8_to_array.  directions is the reverse lookup table of     *)
(* lines 144-153 in its order; the chunked loop and the remainder loop run *)
(* the same body, D8ToArrayCell, on every index of 0..size-1.              *)
(***************************************************************************)
\* directions with the codes of N and S exchanged
directionsNorthSouth ==
    << <<D8_S, -1, 0>>, <<D8_NE, -1, 1>>, <<D8_E, 0, 1>>, <<D8_SE, 1, 1>>,
       <<D8_N, 1, 0>>, <<D8_SW, 1, -1>>, <<D8_W, 0, -1>>, <<D8_NW, -1, -1>> >>

directions ==
    << <<D8_N, -1, 0>>, <<D8_NE, -1, 1>>, <<D8_E, 0, 1>>, <<D8_SE, 1, 1>>,
       <<D8_S, 1, 0>>, <<D8_SW, 1, -1>>, <<D8_W, 0, -1>>, <<D8_NW, -1, -1>> >>

\* `for &(d8_val, ddr, ddc) in &directions`: the first entry that matches is
\* written; cur is the value the cell holds when no entry matches
RECURSIVE D8DirectionLookup(_, _, _, _)
D8DirectionLookup(dr, dc, k, cur) ==
    IF k > Len(directions) THEN cur
    ELSE IF dr = directions[k][2] /\ dc = directions[k][3] THEN directions[k][1]
    ELSE D8DirectionLookup(dr, dc, k + 1, cur)

\* D8ToArrayCell without the self-loop test
D8ToArrayCellNoPit(idxs_ds, shape, idx) ==
    LET ncols == shape[2]
        size == shape[1] * shape[2]
        idx_ds == idxs_ds[idx]
    IN  IF idx_ds < size
        THEN D8DirectionLookup((idx_ds \div ncols) - (idx \div ncols),
                               (idx_ds % ncols) - (idx % ncols), 1, D8_NODATA)
        ELSE D8_NODATA

\* lines 165-183 (and 191-207): the value d8[[row, col]] ends with; the
\* array starts filled with D8_NODATA
D8ToArrayCell(idxs_ds, shape, idx) ==
    LET ncols == shape[2]
        size == shape[1] * shape[2]
        idx_ds == idxs_ds[idx]
    IN  IF idx_ds = idx THEN D8_PIT
        ELSE IF idx_ds < size
        THEN D8DirectionLookup((idx_ds \div ncols) - (idx \div ncols),
                               (idx_ds % ncols) - (idx % ncols), 1, D8_NODATA)
        ELSE D8_NODATA

d8_to_array(idxs_ds, shape) ==
    [nrows |-> shape[1], ncols |-> shape[2],
     data |-> [idx \in 0..(shape[1] * shape[2] - 1) |-> D8ToArrayCell(idxs_ds, shape, idx)]]

(***************************************************************************)
(* Helpers for Rust values.                                                *)
(***************************************************************************)
ArrLen(a) == Cardinality(DOMAIN a)

None == [some |-> FALSE]

Some(v) == [some |-> TRUE, val |-> v]

\* i8 addition as the release build performs it (two's complement wrap).
WrapI8(x) == ((x + 128) % 256) - 128

(***************************************************************************)
(* core.rs: upstream_count.  Both match arms run a chunked loop and a      *)
(* remainder loop with the same body; the arms differ in the mask test and *)
(* in the chunk size.  n_up holds the i8 counters; overflow records that   *)
(* some `+= 1` left the i8 range (a panic when the build checks overflow,  *)
(* a wrap otherwise: the counters then are those of the wrapping build).   *)
(***************************************************************************)
UpstreamHitNoSelfTest(idxs_ds, mask, idx0) ==
    /\ idxs_ds[idx0] < ArrLen(idxs_ds)
    /\ (mask.some => mask.val[idx0])

UpstreamHit(idxs_ds, mask, idx0) ==
    /\ idxs_ds[idx0] # idx0
    /\ idxs_ds[idx0] < ArrLen(idxs_ds)
    /\ (mask.some => mask.val[idx0])

I8_MAX == 127

\* `n_up[idx_ds] += 1` on an i8
UpstreamCountIncr(st, idx_ds) ==
    IF st.n_up[idx_ds] = I8_MAX
    THEN [n_up |-> [st.n_up EXCEPT ![idx_ds] = WrapI8(@ + 1)], overflow |-> TRUE]
    ELSE [n_up |-> [st.n_up EXCEPT ![idx_ds] = @ + 1], overflow |-> st.overflow]

\* CHUNK_SIZE of the arm taken
UpstreamChunkSize(mask) == IF mask.some THEN 8 ELSE 16

\* The loop body over idx0 .. end-1 (one chunk, or the remaining elements).
\* The test on st.overflow never succeeds: it has the counters evaluated at
\* every iteration, as the loop does, and not all at once on return.
RECURSIVE UpstreamCountLoop(_, _, _, _, _)
UpstreamCountLoop(idxs_ds, mask, idx0, end, st) ==
    IF idx0 >= end \/ st.overflow \notin BOOLEAN THEN st
    ELSE UpstreamCountLoop(idxs_ds, mask, idx0 + 1, end,
            IF UpstreamHit(idxs_ds, mask, idx0)
            THEN UpstreamCountIncr(st, idxs_ds[idx0])
            ELSE st)

\* `for chunk in 0..chunks`
RECURSIVE UpstreamCountChunks(_, _, _, _)
UpstreamCountChunks(idxs_ds, mask, chunk, st) ==
    LET cs == UpstreamChunkSize(mask)
    IN  IF chunk >= ArrLen(idxs_ds) \div cs \/ st.overflow \notin BOOLEAN THEN st
        ELSE UpstreamCountChunks(idxs_ds, mask, chunk + 1,
                UpstreamCountLoop(idxs_ds, mask, chunk * cs, chunk * cs + cs, st))

upstream_count(idxs_ds, mask) ==
    LET size == ArrLen(idxs_ds)
        cs == UpstreamChunkSize(mask)
        zeros == [n_up |-> [i \in DOMAIN idxs_ds |-> 0], overflow |-> FALSE]
    IN  UpstreamCountLoop(idxs_ds, mask, (size \div cs) * cs, size,
            UpstreamCountChunks(idxs_ds, mask, 0, zeros))

(***************************************************************************)
(* core.rs: pit_indices (chunked loop and remainder loop, same body).      *)
(***************************************************************************)
\* the loop body over idx .. end-1 that pushes the cells that are not pits
RECURSIVE PitIndicesLoopNonPits(_, _, _, _)
PitIndicesLoopNonPits(idxs_ds, idx, end, pits) ==
    IF idx >= end \/ Len(pits) < 0 THEN pits
    ELSE PitIndicesLoopNonPits(idxs_ds, idx + 1, end,
            IF idxs_ds[idx] # idx THEN Append(pits, idx) ELSE pits)

\* the loop body over idx .. end-1; Len(pits) < 0 never holds and is there
\* to have the vector evaluated at every iteration
RECURSIVE PitIndicesLoop(_, _, _, _)
PitIndicesLoop(idxs_ds, idx, end, pits) ==
    IF idx >= end \/ Len(pits) < 0 THEN pits
    ELSE PitIndicesLoop(idxs_ds, idx + 1, end,
            IF idxs_ds[idx] = idx THEN Append(pits, idx) ELSE pits)

PitChunkSize == 8

\* `for chunk in 0..chunks`
RECURSIVE PitIndicesChunks(_, _, _)
PitIndicesChunks(idxs_ds, chunk, pits) ==
    IF chunk >= ArrLen(idxs_ds) \div PitChunkSize \/ Len(pits) < 0 THEN pits
    ELSE PitIndicesChunks(idxs_ds, chunk + 1,
            PitIndicesLoop(idxs_ds, chunk * PitChunkSize,
                           chunk * PitChunkSize + PitChunkSize, pits))

pit_indices(idxs_ds) ==
    LET size == ArrLen(idxs_ds)
    IN  PitIndicesLoop(idxs_ds, (size \div PitChunkSize) * PitChunkSize, size,
            PitIndicesChunks(idxs_ds, 0, <<>>))

(***************************************************************************)
(* core.rs: rank.  rk holds the locals of the call; pc is the position:    *)
(*   "scan"    at the head of `for idx0_start in chunk_start..chunk_end`   *)
(*             (the chunks tile 0..n in increasing order),                 *)
(*   "walk"    at the head of the `loop` following the flow path,          *)
(*   "assign"  at the head of `for &idx in idxs_lst.iter().rev()`,         *)
(*   "done"    returned (ranks, n_count).                                  *)
(* k is the number of cells of idxs_lst the reverse loop has not yet       *)
(* reached.  idx0, idx_ds and rnk are scoped to one iteration of the scan  *)
(* and hold 0 outside it.                                                  *)
(***************************************************************************)
UNPROCESSED == -9999

\* `x as usize` for an i32 x: a negative x sign-extends to a value above
\* every array length; HugeUsize stands for it.
HugeUsize == 2147483647

AsUsize(x) == IF x < 0 THEN HugeUsize ELSE x

RankEntry(idxs_ds) ==
    [pc |-> "scan",
     ranks |-> [i \in DOMAIN idxs_ds |-> UNPROCESSED],
     n_count |-> 0,
     idxs_lst |-> <<>>,
     visited |-> [i \in DOMAIN idxs_ds |-> FALSE],
     idx0_start |-> 0,
     idx0 |-> 0,
     idx_ds |-> 0,
     rnk |-> 0,
     k |-> 0]

\* the scan moves on to the next start cell
RankNextStart(s) ==
    [s EXCEPT !.pc = "scan", !.idx0_start = @ + 1,
              !.idx0 = 0, !.idx_ds = 0, !.rnk = 0, !.k = 0]

\* RankScan that starts a walk at cells holding the missing value too
RankScanNoMvSkip(idxs_ds, s) ==
    IF s.idx0_start >= ArrLen(idxs_ds) THEN [s EXCEPT !.pc = "done"]
    ELSE LET idx_ds_start == idxs_ds[s.idx0_start]
         IN  IF s.ranks[s.idx0_start] # UNPROCESSED
             THEN RankNextStart(s)
             ELSE [s EXCEPT !.pc = "walk",
                            !.idxs_lst = <<s.idx0_start>>,
                            !.visited[s.idx0_start] = TRUE,
                            !.idx0 = s.idx0_start,
                            !.idx_ds = idx_ds_start]

\* RankScan that starts a walk at cells that already hold a rank too
RankScanNoProcessedSkip(idxs_ds, s) ==
    IF s.idx0_start >= ArrLen(idxs_ds) THEN [s EXCEPT !.pc = "done"]
    ELSE LET idx_ds_start == idxs_ds[s.idx0_start]
         IN  IF idx_ds_start = -1
             THEN RankNextStart(s)
             ELSE [s EXCEPT !.pc = "walk",
                            !.idxs_lst = <<s.idx0_start>>,
                            !.visited[s.idx0_start] = TRUE,
                            !.idx0 = s.idx0_start,
                            !.idx_ds = idx_ds_start]

\* lines 28-46 (and the return at line 99 once the range is exhausted)
RankScan(idxs_ds, s) ==
    IF s.idx0_start >= ArrLen(idxs_ds) THEN [s EXCEPT !.pc = "done"]
    ELSE LET idx_ds_start == idxs_ds[s.idx0_start]
         IN  IF idx_ds_start = -1 \/ s.ranks[s.idx0_start] # UNPROCESSED
             THEN RankNextStart(s)
             ELSE \* idxs_lst.clear(); the loop at lines 38-40 then runs
                  \* over the emptied list and clears nothing
                  [s EXCEPT !.pc = "walk",
                            !.idxs_lst = <<s.idx0_start>>,
                            !.visited[s.idx0_start] = TRUE,
                            !.idx0 = s.idx0_start,
                            !.idx_ds = idx_ds_start]

\* RankMarkPath that also counts the cells it marks Invalid
RankMarkPathCounted(s) ==
    LET onpath == {s.idxs_lst[j] : j \in 1..Len(s.idxs_lst)}
    IN  RankNextStart(
            [s EXCEPT !.ranks = [i \in DOMAIN s.ranks |->
                                    IF i \in onpath THEN -1 ELSE s.ranks[i]],
                      !.visited = [i \in DOMAIN s.visited |->
                                    IF i \in onpath THEN FALSE ELSE s.visited[i]],
                      !.n_count = @ + Len(s.idxs_lst)])

\* lines 55-59 and 72-76: the whole path becomes Invalid, then `break -2`;
\* line 87 then skips the assignment
RankMarkPath(s) ==
    LET onpath == {s.idxs_lst[j] : j \in 1..Len(s.idxs_lst)}
    IN  RankNextStart(
            [s EXCEPT !.ranks = [i \in DOMAIN s.ranks |->
                                    IF i \in onpath THEN -1 ELSE s.ranks[i]],
                      !.visited = [i \in DOMAIN s.visited |->
                                    IF i \in onpath THEN FALSE ELSE s.visited[i]]])

\* `break r` with r # -2: line 87 enters the reverse loop
RankBreak(s, r) ==
    [s EXCEPT !.pc = "assign", !.rnk = r, !.k = Len(s.idxs_lst)]

\* RankWalk breaking with 0 at a pit
RankWalkPitZero(idxs_ds, s) ==
    LET n == ArrLen(idxs_ds)
        idx_ds_usize == AsUsize(s.idx_ds)
    IN  IF idx_ds_usize >= n THEN RankMarkPath(s)
        ELSE LET current_rank == s.ranks[idx_ds_usize]
             IN  IF current_rank >= 0 THEN RankBreak(s, current_rank)
                 ELSE IF s.idx_ds = s.idx0 THEN RankBreak(s, 0)
                 ELSE IF current_rank = -1 \/ s.visited[idx_ds_usize]
                      THEN RankMarkPath(s)
                 ELSE [s EXCEPT !.idx0 = idx_ds_usize,
                                !.idxs_lst = Append(@, idx_ds_usize),
                                !.visited[idx_ds_usize] = TRUE,
                                !.idx_ds = idxs_ds[idx_ds_usize]]

\* RankWalk that treats a path ending in a loop or an Invalid cell as a pit
RankWalkLoopAsPit(idxs_ds, s) ==
    LET n == ArrLen(idxs_ds)
        idx_ds_usize == AsUsize(s.idx_ds)
    IN  IF idx_ds_usize >= n THEN RankMarkPath(s)
        ELSE LET current_rank == s.ranks[idx_ds_usize]
             IN  IF current_rank >= 0 THEN RankBreak(s, current_rank)
                 ELSE IF s.idx_ds = s.idx0 THEN RankBreak(s, -1)
                 ELSE IF current_rank = -1 \/ s.visited[idx_ds_usize]
                      THEN RankBreak(s, -1)
                 ELSE [s EXCEPT !.idx0 = idx_ds_usize,
                                !.idxs_lst = Append(@, idx_ds_usize),
                                !.visited[idx_ds_usize] = TRUE,
                                !.idx_ds = idxs_ds[idx_ds_usize]]

\* RankWalk testing for a loop before testing for a pit
RankWalkLoopFirst(idxs_ds, s) ==
    LET n == ArrLen(idxs_ds)
        idx_ds_usize == AsUsize(s.idx_ds)
    IN  IF idx_ds_usize >= n THEN RankMarkPath(s)
        ELSE LET current_rank == s.ranks[idx_ds_usize]
             IN  IF current_rank >= 0 THEN RankBreak(s, current_rank)
                 ELSE IF current_rank = -1 \/ s.visited[idx_ds_usize]
                      THEN RankMarkPath(s)
                 ELSE IF s.idx_ds = s.idx0 THEN RankBreak(s, -1)
                 ELSE [s EXCEPT !.idx0 = idx_ds_usize,
                                !.idxs_lst = Append(@, idx_ds_usize),
                                !.visited[idx_ds_usize] = TRUE,
                                !.idx_ds = idxs_ds[idx_ds_usize]]

\* RankWalk that does not mark the cells it pushes as visited
RankWalkNoVisited(idxs_ds, s) ==
    LET n == ArrLen(idxs_ds)
        idx_ds_usize == AsUsize(s.idx_ds)
    IN  IF idx_ds_usize >= n THEN RankMarkPath(s)
        ELSE LET current_rank == s.ranks[idx_ds_usize]
             IN  IF current_rank >= 0 THEN RankBreak(s, current_rank)
                 ELSE IF s.idx_ds = s.idx0 THEN RankBreak(s, -1)
                 ELSE IF current_rank = -1 \/ s.visited[idx_ds_usize]
                      THEN RankMarkPath(s)
                 ELSE [s EXCEPT !.idx0 = idx_ds_usize,
                                !.idxs_lst = Append(@, idx_ds_usize),
                                !.idx_ds = idxs_ds[idx_ds_usize]]

\* lines 49-84: one iteration of the loop
RankWalk(idxs_ds, s) ==
    LET n == ArrLen(idxs_ds)
        idx_ds_usize == AsUsize(s.idx_ds)
    IN  IF idx_ds_usize >= n THEN RankMarkPath(s)
        ELSE LET current_rank == s.ranks[idx_ds_usize]
             IN  IF current_rank >= 0 THEN RankBreak(s, current_rank)
                 ELSE IF s.idx_ds = s.idx0 THEN RankBreak(s, -1)
                 ELSE IF current_rank = -1 \/ s.visited[idx_ds_usize]
                      THEN RankMarkPath(s)
                 ELSE [s EXCEPT !.idx0 = idx_ds_usize,
                                !.idxs_lst = Append(@, idx_ds_usize),
                                !.visited[idx_ds_usize] = TRUE,
                                !.idx_ds = idxs_ds[idx_ds_usize]]

\* RankAssign that stores the rank before incrementing it
RankAssignBeforeIncrement(idxs_ds, s) ==
    IF s.k = 0 THEN RankNextStart(s)
    ELSE LET idx == s.idxs_lst[s.k]
         IN  [s EXCEPT !.rnk = @ + 1,
                       !.n_count = @ + 1,
                       !.ranks[idx] = s.rnk,
                       !.visited[idx] = FALSE,
                       !.k = @ - 1]

\* lines 89-94: one iteration of the reverse loop
RankAssign(idxs_ds, s) ==
    IF s.k = 0 THEN RankNextStart(s)
    ELSE LET idx == s.idxs_lst[s.k]
         IN  [s EXCEPT !.rnk = @ + 1,
                       !.n_count = @ + 1,
                       !.ranks[idx] = s.rnk + 1,
                       !.visited[idx] = FALSE,
                       !.k = @ - 1]

\* the call as a function: the steps above run until the return
RankStep(idxs_ds, s) ==
    CASE s.pc = "scan" -> RankScan(idxs_ds, s)
      [] s.pc = "walk" -> RankWalk(idxs_ds, s)
      [] s.pc = "assign" -> RankAssign(idxs_ds, s)

\* lines 49-95 for one start cell: the steps from the head of the path loop
\* until the scan is resumed
RECURSIVE RankRunPath(_, _)
RankRunPath(idxs_ds, s) ==
    IF s.pc \in {"scan", "done"} THEN s
    ELSE RankRunPath(idxs_ds, RankStep(idxs_ds, s))

RankChunkSize == 64

\* `for idx0_start in chunk_start..chunk_end`
RECURSIVE RankRunChunk(_, _, _)
RankRunChunk(idxs_ds, s, chunk_end) ==
    IF s.pc = "done" \/ s.idx0_start >= chunk_end THEN s
    ELSE RankRunChunk(idxs_ds, RankRunPath(idxs_ds, RankStep(idxs_ds, s)), chunk_end)

\* `for chunk_start in (0..n).step_by(CHUNK_SIZE)`, then the return
RECURSIVE RankRun(_, _)
RankRun(idxs_ds, s) ==
    LET n == ArrLen(idxs_ds)
        chunk_end == IF s.idx0_start + RankChunkSize < n
                     THEN s.idx0_start + RankChunkSize ELSE n
    IN  IF s.pc = "done" THEN s
        ELSE IF s.idx0_start >= n THEN RankStep(idxs_ds, s)
        ELSE RankRun(idxs_ds, RankRunChunk(idxs_ds, s, chunk_end))

\* the pair (ranks, n_count) returned at line 99
rank(idxs_ds) ==
    LET s == RankRun(idxs_ds, RankEntry(idxs_ds))
    IN  [ranks |-> s.ranks, n_count |-> s.n_count]

(***************************************************************************)
(* core.rs: upstream_matrix.  idxs_us[t][k] is the entry at row t, column  *)
(* k; n_up_counter holds usize counters.  overflow is upstream_count's.    *)
(***************************************************************************)
MV == -1

MaxOf(a) == CHOOSE m \in {a[i] : i \in DOMAIN a} : \A i \in DOMAIN a : a[i] <= m

\* lines 179-188
RECURSIVE UpstreamMatrixLoop(_, _, _, _)
UpstreamMatrixLoop(idxs_ds, d, idx0, st) ==
    IF idx0 >= ArrLen(idxs_ds) THEN st
    ELSE LET idx_ds == idxs_ds[idx0]
         IN  UpstreamMatrixLoop(idxs_ds, d, idx0 + 1,
                IF idx_ds # idx0 /\ idx_ds < ArrLen(idxs_ds) /\ st.n_up_counter[idx_ds] < d
                THEN [idxs_us |-> [st.idxs_us EXCEPT ![idx_ds][st.n_up_counter[idx_ds]] = idx0],
                      n_up_counter |-> [st.n_up_counter EXCEPT ![idx_ds] = @ + 1]]
                ELSE st)

upstream_matrix(idxs_ds) ==
    LET cnt == upstream_count(idxs_ds, None)
        d == MaxOf(cnt.n_up)
        cells == DOMAIN idxs_ds
    IN  IF d = 0
        THEN [idxs_us |-> [t \in cells |-> [k \in 0..0 |-> MV]],
              overflow |-> cnt.overflow]
        ELSE [idxs_us |-> UpstreamMatrixLoop(idxs_ds, d, 0,
                            [idxs_us |-> [t \in cells |-> [k \in 0..(d - 1) |-> MV]],
                             n_up_counter |-> [t \in cells |-> 0]]).idxs_us,
              overflow |-> cnt.overflow]

(***************************************************************************)
(* core.rs: idxs_seq.  seq is the filled portion idxs_seq[..j], so j is    *)
(* Len(seq) and the source's idxs_seq[i] is seq[i + 1].                    *)
(***************************************************************************)
\* lines 231-236
RECURSIVE IdxsSeqPits(_, _, _, _)
IdxsSeqPits(size, idxs_pit, p, seq) ==
    IF p > Len(idxs_pit) THEN seq
    ELSE IdxsSeqPits(size, idxs_pit, p + 1,
            IF Len(seq) < size THEN Append(seq, idxs_pit[p]) ELSE seq)

\* lines 243-252: `for k in 0..idxs_us.ncols()`
RECURSIVE IdxsSeqRow(_, _, _, _, _)
IdxsSeqRow(idxs_us, size, seq, idx0, k) ==
    IF k >= ArrLen(idxs_us[idx0]) THEN seq
    ELSE LET idx == idxs_us[idx0][k]
         IN  IF idx = MV THEN seq
             ELSE IdxsSeqRow(idxs_us, size,
                    IF Len(seq) < size THEN Append(seq, idx) ELSE seq, idx0, k + 1)

\* IdxsSeqExpand that puts the upstream cells of a cell right behind it
\* (depth first) instead of at the end of the sequence
RECURSIVE IdxsSeqExpandDepthFirst(_, _, _, _)
IdxsSeqExpandDepthFirst(idxs_us, size, seq, i) ==
    IF i < Len(seq) /\ i < size
    THEN IdxsSeqExpandDepthFirst(idxs_us, size,
            IdxsSeqRow(idxs_us, size, SubSeq(seq, 1, i + 1), seq[i + 1], 0)
                \o SubSeq(seq, i + 2, Len(seq)),
            i + 1)
    ELSE seq

\* lines 238-254: `while i < j && i < size`
RECURSIVE IdxsSeqExpand(_, _, _, _)
IdxsSeqExpand(idxs_us, size, seq, i) ==
    IF i < Len(seq) /\ i < size
    THEN IdxsSeqExpand(idxs_us, size, IdxsSeqRow(idxs_us, size, seq, seq[i + 1], 0), i + 1)
    ELSE seq

idxs_seq(idxs_ds, idxs_pit) ==
    LET um == upstream_matrix(idxs_ds)
        size == ArrLen(idxs_ds)
    IN  [seq |-> IdxsSeqExpand(um.idxs_us, size, IdxsSeqPits(size, idxs_pit, 1, <<>>), 0),
         overflow |-> um.overflow]

(***************************************************************************)
(* core.rs: main_upstream.  f64 magnitudes are modelled by the integers    *)
(* they hold.                                                              *)
(***************************************************************************)
\* lines 274-284: `for k in 0..idxs_us.ncols()` on the row of idx0
RECURSIVE MainUpstreamRow(_, _, _, _, _)
MainUpstreamRow(row, uparea, k, max_uparea, main_idx) ==
    IF k >= ArrLen(row) THEN main_idx
    ELSE LET idx == row[k]
         IN  IF idx = MV THEN main_idx
             ELSE IF idx < ArrLen(uparea) /\ uparea[idx] > max_uparea
                  THEN MainUpstreamRow(row, uparea, k + 1, uparea[idx], idx)
                  ELSE MainUpstreamRow(row, uparea, k + 1, max_uparea, main_idx)

main_upstream(idxs_ds, uparea, upa_min) ==
    LET um == upstream_matrix(idxs_ds)
    IN  [idxs_us_main |-> [idx0 \in DOMAIN idxs_ds |->
                              MainUpstreamRow(um.idxs_us[idx0], uparea, 0, upa_min, MV)],
         overflow |-> um.overflow]

(***************************************************************************)
(* flwdir.rs: FlwdirRaster.                                                *)
(***************************************************************************)
NoRaster == [status |-> "none"]

ValidMaskCellNoPit(g, idxs_ds, idx) == idxs_ds[idx] # idx

\* lines 59-63 and 69-73: the same expression in both loops
ValidMaskCell(g, idxs_ds, idx) ==
    \/ idxs_ds[idx] # idx
    \/ GridAt(g, idx \div g.ncols, idx % g.ncols) = 0

from_array(g) ==
    LET size == g.nrows * g.ncols
        idxs_ds == d8_from_array(g)
        valid_mask == [idx \in 0..(size - 1) |-> ValidMaskCell(g, idxs_ds, idx)]
        cnt == upstream_count(idxs_ds, Some(valid_mask))
    IN  [status |-> "ok",
         idxs_ds |-> idxs_ds,
         shape |-> <<g.nrows, g.ncols>>,
         valid_mask |-> valid_mask,
         pit_indices |-> pit_indices(idxs_ds),
         upstream_counts |-> cnt.n_up,
         overflowed |-> cnt.overflow,
         rank_cache |-> None]

is_valid(f, idx) == idx < ArrLen(f.valid_mask) /\ f.valid_mask[idx]

\* lines 94-122: `self.idxs_ds[idx] as i32` on every index (both loops).
\* The cast keeps a value below 2^31, which every index here is.
get_idxs_ds_i32(f) == [idx \in DOMAIN f.idxs_ds |-> f.idxs_ds[idx]]

\* FlwdirRaster::rank that computes the ranks on every call
FacadeRankNoCache(f) ==
    [self |-> [f EXCEPT !.rank_cache = Some(rank(get_idxs_ds_i32(f)).ranks)],
     ret |-> rank(get_idxs_ds_i32(f)).ranks,
     computed |-> TRUE]

\* lines 163-171: FlwdirRaster::rank.  self is the instance after the call,
\* ret the array the returned reference points to, computed tells whether
\* core::rank ran.  The `_pits` argument of core::rank is not read.
FacadeRank(f) ==
    IF ~f.rank_cache.some
    THEN LET ranks == rank(get_idxs_ds_i32(f)).ranks
         IN  [self |-> [f EXCEPT !.rank_cache = Some(ranks)],
              ret |-> ranks,
              computed |-> TRUE]
    ELSE [self |-> f, ret |-> f.rank_cache.val, computed |-> FALSE]

(***************************************************************************)
(* flwdir.rs: FlwdirRaster::accuflux.  f64 values are modelled by the      *)
(* integers they hold.  cells_by_count is only ever read by key, from      *)
(* max_count down to 0, and each bucket holds its cells in the increasing  *)
(* index order in which lines 141-144 pushed them; AccuCells is the        *)
(* resulting sequence of visits of the loops at lines 147-156.             *)
(***************************************************************************)
RECURSIVE AccuBucket(_, _, _)
AccuBucket(counts, count, idx) ==
    IF idx >= ArrLen(counts) THEN <<>>
    ELSE (IF counts[idx] = count THEN <<idx>> ELSE <<>>)
            \o AccuBucket(counts, count, idx + 1)

AccuMaxCount(counts) ==
    LET m == CHOOSE c \in {counts[i] : i \in DOMAIN counts} :
                \A i \in DOMAIN counts : counts[i] <= c
    IN  IF m > 0 THEN m ELSE 0

\* lines 147-149: `for count in (0..=max_count).rev()`, then the bucket
RECURSIVE AccuCells(_, _)
AccuCells(counts, count) ==
    IF count < 0 THEN <<>>
    ELSE AccuBucket(counts, count, 0) \o AccuCells(counts, count - 1)

\* the entry state with every flux left at one, weights or not
AccufluxEntryOnes(f, weights) ==
    [pc |-> "run",
     weights |-> weights,
     flux |-> [i \in DOMAIN f.idxs_ds |-> 1],
     cells |-> AccuCells(f.upstream_counts, AccuMaxCount(f.upstream_counts)),
     pos |-> 1]

\* lines 127-144
AccufluxEntry(f, weights) ==
    [pc |-> "run",
     weights |-> weights,
     flux |-> [i \in DOMAIN f.idxs_ds |-> IF weights.some THEN weights.val[i] ELSE 1],
     cells |-> AccuCells(f.upstream_counts, AccuMaxCount(f.upstream_counts)),
     pos |-> 1]

\* lines 149-154: one cell of the current bucket
AccufluxPush(f, a) ==
    LET idx == a.cells[a.pos]
        idx_ds == f.idxs_ds[idx]
    IN  [a EXCEPT !.pos = @ + 1,
                  !.flux = IF idx_ds # idx /\ idx_ds < ArrLen(f.idxs_ds)
                           THEN [a.flux EXCEPT ![idx_ds] = @ + a.flux[idx]]
                           ELSE a.flux]

(***************************************************************************)
(* Idle values of the variables a specification does not use.              *)
(***************************************************************************)
NoArr == <<>>

NoAcc == [pc |-> "idle"]

NoRk == [pc |-> "idle"]

NoOut == [op |-> "none"]

(***************************************************************************)
(* SpecBuild: a grid is handed to FlwdirRaster::from_array, and the        *)
(* instance's downstream array and shape are then handed to d8_to_array.   *)
(* The grid is one of the bounded grids or a 3 x 3 grid around a centre    *)
(* cell, the smallest grid in which a cell has all 8 neighbours.           *)
(***************************************************************************)
\* the code by which cell i of a 3 x 3 grid points at the centre cell
TowardCentre(i) == D8DirectionLookup(1 - (i \div 3), 1 - (i % 3), 1, D8_NODATA)

\* g is a 3 x 3 grid: the centre holds PIT, NODATA or N, and every other
\* cell holds the code toward the centre, PIT or NODATA
IsHubGrid(g) ==
    \E c \in {D8_PIT, D8_NODATA, D8_N} :
        \E f \in [(0..8) \ {4} -> {"in", "pit", "nodata"}] :
            g = [nrows |-> 3, ncols |-> 3,
                 data |-> [i \in 0..8 |->
                             IF i = 4 THEN c
                             ELSE IF f[i] = "in" THEN TowardCentre(i)
                             ELSE IF f[i] = "pit" THEN D8_PIT
                             ELSE D8_NODATA]]

InitBuild ==
    /\ IsGrid(d8) \/ IsHubGrid(d8)
    /\ flw = NoRaster
    /\ acc = NoAcc
    /\ arr = NoArr
    /\ rk = NoRk
    /\ out = NoOut

FromArray ==
    /\ flw.status = "none"
    /\ d8 # NoGrid
    /\ flw' = from_array(d8)
    /\ UNCHANGED <<d8, acc, arr, rk, out>>

D8ToArray ==
    /\ flw.status = "ok"
    /\ out.op = "none"
    /\ out' = [op |-> "d8_to_array", ret |-> d8_to_array(flw.idxs_ds, flw.shape)]
    /\ UNCHANGED <<d8, flw, acc, arr, rk>>

NextBuild == FromArray \/ D8ToArray

SpecBuild == InitBuild /\ [][NextBuild]_vars

(***************************************************************************)
(* Vocabulary of the properties about grids.                               *)
(***************************************************************************)
CompassCodes == {1, 2, 4, 8, 16, 32, 64, 128}

\* the offsets the direction codes stand for: E, SE, S, SW, W, NW, N, NE
CompassOffset(code) ==
    CASE code = 1 -> <<0, 1>>
      [] code = 2 -> <<1, 1>>
      [] code = 4 -> <<1, 0>>
      [] code = 8 -> <<1, -1>>
      [] code = 16 -> <<0, -1>>
      [] code = 32 -> <<-1, -1>>
      [] code = 64 -> <<-1, 0>>
      [] code = 128 -> <<-1, 1>>

Built == flw.status = "ok"

CellRow(idx) == idx \div d8.ncols

CellCol(idx) == idx % d8.ncols

TargetRow(idx) == CellRow(idx) + CompassOffset(d8.data[idx])[1]

TargetCol(idx) == CellCol(idx) + CompassOffset(d8.data[idx])[2]

\* the cell's code is a compass code whose target lies inside the grid
FlowsInGrid(idx) ==
    /\ d8.data[idx] \in CompassCodes
    /\ TargetRow(idx) \in 0..(d8.nrows - 1)
    /\ TargetCol(idx) \in 0..(d8.ncols - 1)

AbsDiff(a, b) == IF a >= b THEN a - b ELSE b - a

\* C1: d8_from_array maps a PIT cell to itself, a compass cell with an
\* in-grid target to that target's linear index and every other cell to
\* itself; so every entry is the cell itself or one of its 8 grid neighbours
\* (an index < size, at most one row and one column away: no wrap-around).
C1_D8FromArray ==
    Built =>
        \A i \in DOMAIN d8.data :
            /\ DOMAIN flw.idxs_ds = DOMAIN d8.data
            /\ d8.data[i] = 0 => flw.idxs_ds[i] = i
            /\ FlowsInGrid(i) => flw.idxs_ds[i] = TargetRow(i) * d8.ncols + TargetCol(i)
            /\ (d8.data[i] # 0 /\ ~FlowsInGrid(i)) => flw.idxs_ds[i] = i
            /\ \/ flw.idxs_ds[i] = i
               \/ /\ flw.idxs_ds[i] \in 0..(d8.nrows * d8.ncols - 1)
                  /\ AbsDiff(CellRow(flw.idxs_ds[i]), CellRow(i)) <= 1
                  /\ AbsDiff(CellCol(flw.idxs_ds[i]), CellCol(i)) <= 1

\* C1 witness: a built 2-D grid holding a pit, a cell draining into a
\* neighbour, an unrecognised code, and an E code in the last column of a row
\* that is not the last one (where idx + 1 is the first cell of the next row).
C1_Witness ==
    /\ Built
    /\ d8.nrows >= 2 /\ d8.ncols >= 2
    /\ \E i, j, k, e \in DOMAIN d8.data :
        /\ d8.data[i] = 0
        /\ FlowsInGrid(j) /\ flw.idxs_ds[j] # j
        /\ d8.data[k] \notin CompassCodes \cup {0}
        /\ d8.data[e] = 1 /\ CellCol(e) = d8.ncols - 1 /\ CellRow(e) < d8.nrows - 1
        /\ flw.idxs_ds[e] = e

\* C2: from_array never fails, and is_valid(i) is true exactly for the cells
\* whose code is PIT or a compass code with an in-grid target; every other
\* cell (unrecognised code, or target outside the grid) is a self-loop that is
\* not valid.
C2_FromArrayTotal ==
    Built =>
        /\ ~flw.overflowed
        /\ DOMAIN flw.valid_mask = DOMAIN d8.data
        /\ \A i \in DOMAIN d8.data :
            /\ is_valid(flw, i) <=> (d8.data[i] = 0 \/ FlowsInGrid(i))
            /\ ~(d8.data[i] = 0 \/ FlowsInGrid(i)) =>
                  (flw.idxs_ds[i] = i /\ ~is_valid(flw, i))

\* C2 witness: a built grid with an unrecognised byte, a compass code
\* pointing outside the grid, a pit and a draining cell.
C2_Witness ==
    /\ Built
    /\ \E i, k, p, q \in DOMAIN d8.data :
        /\ d8.data[i] \in {3, 255} /\ ~is_valid(flw, i)
        /\ d8.data[k] \in CompassCodes /\ ~FlowsInGrid(k) /\ ~is_valid(flw, k)
        /\ d8.data[p] = 0 /\ is_valid(flw, p)
        /\ FlowsInGrid(q) /\ is_valid(flw, q)

\* the cells draining directly into i
Contributors(a, i) == {j \in DOMAIN a : j # i /\ a[j] = i}

IsRankArray(a) ==
    \E n \in 1..MaxN :
        a \in [0..(n - 1) -> (-2)..n]

InitRank ==
    /\ IsRankArray(arr)
    /\ rk = RankEntry(arr)
    /\ d8 = NoGrid
    /\ flw = NoRaster
    /\ acc = NoAcc
    /\ out = NoOut

Scan ==
    /\ rk.pc = "scan"
    /\ rk' = RankScan(arr, rk)
    /\ UNCHANGED <<d8, flw, acc, arr, out>>

Walk ==
    /\ rk.pc = "walk"
    /\ rk' = RankWalk(arr, rk)
    /\ UNCHANGED <<d8, flw, acc, arr, out>>

Assign ==
    /\ rk.pc = "assign"
    /\ rk' = RankAssign(arr, rk)
    /\ UNCHANGED <<d8, flw, acc, arr, out>>

NextRank == Scan \/ Walk \/ Assign

SpecRank == InitRank /\ [][NextRank]_vars

\* the call runs to completion: a step that can be taken is taken
LiveRank == SpecRank /\ WF_vars(NextRank)

(***************************************************************************)
(* Vocabulary of the properties about downstream arrays.                   *)
(***************************************************************************)
\* the cell reached from i after k hops; an index outside the array stays
RECURSIVE Follow(_, _, _)
Follow(a, i, k) ==
    IF k = 0 \/ i \notin DOMAIN a THEN i ELSE Follow(a, a[i], k - 1)

IsPit(a, i) == i \in DOMAIN a /\ a[i] = i

\* i's downstream chain ends in a pit
ReachesPit(a, i) == \E k \in 0..ArrLen(a) : IsPit(a, Follow(a, i, k))

\* the number of hops from i to that pit
HopsToPit(a, i) ==
    CHOOSE k \in 0..ArrLen(a) :
        /\ IsPit(a, Follow(a, i, k))
        /\ \A j \in 0..(k - 1) : ~IsPit(a, Follow(a, i, j))

\* i lies on a cycle of length >= 2
OnCycle(a, i) ==
    /\ i \in DOMAIN a
    /\ a[i] # i
    /\ \E k \in 2..ArrLen(a) : Follow(a, i, k) = i

\* i lies on such a cycle or its chain leads into one
LeadsToCycle(a, i) == \E k \in 0..ArrLen(a) : OnCycle(a, Follow(a, i, k))

\* i's chain reaches an index outside 0..size-1
LeavesRange(a, i) == \E k \in 1..ArrLen(a) : Follow(a, i, k) \notin DOMAIN a

\* i holds the missing value and no other cell drains into it
SkippedMv(a, i) == a[i] = -1 /\ \A j \in DOMAIN a : j # i => a[j] # i

RankDone == rk.pc = "done"

\* C3: in the returned array every pit has rank 0 and every non-pit cell
\* with a rank >= 0 has the rank of its downstream cell plus one.
C3_RankRecurrence ==
    RankDone =>
        \A c \in DOMAIN arr :
            /\ arr[c] = c => rk.ranks[c] = 0
            /\ (arr[c] # c /\ rk.ranks[c] >= 0) =>
                 /\ arr[c] \in DOMAIN arr
                 /\ rk.ranks[c] = rk.ranks[arr[c]] + 1

\* C3 witness: a returned array with a pit, a cell two hops from it whose
\* downstream cell was resolved by an earlier walk, and an unresolved cell.
C3_Witness ==
    /\ RankDone
    /\ \E p, c, u \in DOMAIN arr :
        /\ arr[p] = p /\ rk.ranks[p] = 0
        /\ arr[c] \in DOMAIN arr /\ arr[c] < c /\ arr[arr[c]] = p
        /\ rk.ranks[c] = 2
        /\ rk.ranks[u] = -1

C5_NoFalseInvalid ==
    \A c \in DOMAIN arr :
        ReachesPit(arr, c) =>
            /\ rk.ranks[c] # -1
            /\ RankDone => rk.ranks[c] = HopsToPit(arr, c)

\* C5 witness: a returned array where a cycle was walked and marked Invalid
\* before a cell that drains into a pit was reached.
C5_Witness ==
    /\ RankDone
    /\ \E a, c \in DOMAIN arr :
        /\ OnCycle(arr, a) /\ rk.ranks[a] = -1
        /\ a < c
        /\ arr[c] # c /\ IsPit(arr, arr[c]) /\ rk.ranks[c] = 1

PathDistinct ==
    \A i, j \in 1..Len(rk.idxs_lst) : i # j => rk.idxs_lst[i] # rk.idxs_lst[j]

\* C6: rank terminates on every array: a walk only ever extends the path by
\* a cell that is not on it, so the path never holds more than size cells,
\* and the call eventually returns.
C6_RankTerminates ==
    /\ [](PathDistinct /\ Len(rk.idxs_lst) <= ArrLen(arr))
    /\ <>RankDone

\* C6 witness: the call has returned on an array with a cycle, a self-loop
\* and an out-of-range entry.
C6_Witness ==
    /\ RankDone
    /\ \E a, p, o \in DOMAIN arr :
        /\ OnCycle(arr, a)
        /\ arr[p] = p
        /\ arr[o] \notin DOMAIN arr

WeightValues == {2, 5}

InitAccu ==
    /\ \E s \in Shapes :
          \E f \in [0..(s[1] * s[2] - 1) -> Codes] :
              flw = from_array([nrows |-> s[1], ncols |-> s[2], data |-> f])
    /\ d8 = NoGrid
    /\ acc = NoAcc
    /\ arr = NoArr
    /\ rk = NoRk
    /\ out = NoOut

AccufluxCall ==
    /\ acc.pc = "idle"
    /\ \E weights \in {None} \cup {Some(w) : w \in [DOMAIN flw.idxs_ds -> WeightValues]} :
          acc' = AccufluxEntry(flw, weights)
    /\ UNCHANGED <<d8, flw, arr, rk, out>>

AccufluxStep ==
    /\ acc.pc = "run"
    /\ acc.pos <= Len(acc.cells)
    /\ acc' = AccufluxPush(flw, acc)
    /\ UNCHANGED <<d8, flw, arr, rk, out>>

AccufluxReturn ==
    /\ acc.pc = "run"
    /\ acc.pos > Len(acc.cells)
    /\ acc' = [acc EXCEPT !.pc = "done"]
    /\ UNCHANGED <<d8, flw, arr, rk, out>>

NextAccu == AccufluxCall \/ AccufluxStep \/ AccufluxReturn

SpecAccu == InitAccu /\ [][NextAccu]_vars

(***************************************************************************)
(* Vocabulary of the properties about accumulation.                        *)
(***************************************************************************)
\* i and every cell whose chain passes through i
UpstreamSubtree(a, i) ==
    {c \in DOMAIN a : \E k \in 0..ArrLen(a) : Follow(a, c, k) = i}

RECURSIVE SumOver(_, _)
SumOver(f, S) ==
    IF S = {} THEN 0
    ELSE LET x == CHOOSE y \in S : TRUE
         IN  f[x] + SumOver(f, S \ {x})

\* every cell of the facade drains to a pit (the graph is a forest)
IsForest(f) == \A i \in DOMAIN f.idxs_ds : ReachesPit(f.idxs_ds, i)

AccuDone == acc.pc = "done"

OwnWeight(i) == IF acc.weights.some THEN acc.weights.val[i] ELSE 1

\* C8: accuflux returns for every cell its own weight (1 without weights)
\* plus the sum of the returned values of the cells draining directly into
\* it; with uniform weight 1 a pit's value is the size of its upstream
\* subtree, itself included.  Stated for the facades whose every cell drains
\* to a pit, where these equations have a solution.
C8_Accuflux ==
    (AccuDone /\ IsForest(flw)) =>
        /\ \A i \in DOMAIN flw.idxs_ds :
              acc.flux[i] = OwnWeight(i) + SumOver(acc.flux, Contributors(flw.idxs_ds, i))
        /\ ~acc.weights.some =>
              \A p \in DOMAIN flw.idxs_ds :
                  flw.idxs_ds[p] = p =>
                      acc.flux[p] = Cardinality(UpstreamSubtree(flw.idxs_ds, p))

\* the position at which the loops visit cell i
VisitOf(i) == CHOOSE q \in 1..Len(acc.cells) : acc.cells[q] = i

\* C9: whenever accuflux has added a cell's value to its downstream target,
\* every cell draining into that cell had added its own value before
\* (leaves first).  Stated for the facades whose every cell drains to a pit.
C9_LeavesFirst ==
    (acc.pc \in {"run", "done"} /\ IsForest(flw)) =>
        \A q \in 1..(acc.pos - 1) :
            flw.idxs_ds[acc.cells[q]] # acc.cells[q] =>
                \A j \in Contributors(flw.idxs_ds, acc.cells[q]) : VisitOf(j) < q

(***************************************************************************)
(* Calls of the core.rs functions that count upstream cells.  Besides the  *)
(* bounded arrays they are handed the array of I8_MAX + 2 cells whose cell *)
(* 0 is a pit that every other cell drains into.  The build either checks  *)
(* integer overflow (the call panics) or wraps.                            *)
(***************************************************************************)
StarArray == [i \in 0..(I8_MAX + 1) |-> 0]

Builds == {"checked", "wrapping"}

\* what the caller sees of a call whose result is ret
Outcome(op, args, ret, build) ==
    IF ret.overflow /\ build = "checked"
    THEN [op |-> op, args |-> args, panic |-> TRUE]
    ELSE [op |-> op, args |-> args, panic |-> FALSE, ret |-> ret]

(***************************************************************************)
(* SpecSeq: a core.rs function is called on a downstream array of usize.   *)
(* Entries are in-range indices or the first index past the end (n).       *)
(***************************************************************************)
IsIndexArray(a) ==
    \E n \in 1..MaxN :
        a \in [0..(n - 1) -> 0..n]

InitSeq ==
    /\ IsIndexArray(arr) \/ arr = StarArray
    /\ out = NoOut
    /\ d8 = NoGrid
    /\ flw = NoRaster
    /\ acc = NoAcc
    /\ rk = NoRk

CallIdxsSeq ==
    /\ out.op = "none"
    /\ \E build \in Builds :
          out' = Outcome("idxs_seq", <<>>, idxs_seq(arr, pit_indices(arr)), build)
    /\ UNCHANGED <<d8, flw, acc, arr, rk>>

NextSeq == CallIdxsSeq

SpecSeq == InitSeq /\ [][NextSeq]_vars

\* the ranks core::rank gives the array (its entries fit an i32 unchanged)
RanksOf(a) == rank(a).ranks

SeqReturned == out.op = "idxs_seq" /\ ~out.panic

\* C10: the sequence idxs_seq(idxs_ds, pit_indices(idxs_ds)) holds no index
\* twice, holds every non-pit cell at a later position than its downstream
\* cell, and is as long as the number of cells whose rank is >= 0.
C10_IdxsSeq ==
    SeqReturned =>
        LET seq == out.ret.seq
        IN  /\ \A q, r \in 1..Len(seq) : q # r => seq[q] # seq[r]
            /\ \A q \in 1..Len(seq) :
                  /\ seq[q] \in DOMAIN arr
                  /\ arr[seq[q]] # seq[q] => \E r \in 1..(q - 1) : seq[r] = arr[seq[q]]
            /\ Len(seq) = Cardinality({c \in DOMAIN arr : RanksOf(arr)[c] >= 0})

(***************************************************************************)
(* SpecUp: upstream_count, upstream_matrix or main_upstream is called on a *)
(* downstream array of usize: one of the bounded arrays or StarArray.      *)
(***************************************************************************)
AllTrue(a) == [i \in DOMAIN a |-> TRUE]

\* the masks handed to upstream_count
Masks(a) ==
    IF a = StarArray THEN {None, Some(AllTrue(a))}
    ELSE {None} \cup {Some(m) : m \in [DOMAIN a -> BOOLEAN]}

UpareaValues == {1, 2}

UpaMinValues == {0, 1}

\* the magnitude arrays handed to main_upstream
Upareas(a) ==
    IF a = StarArray THEN {[i \in DOMAIN a |-> v] : v \in UpareaValues}
    ELSE [DOMAIN a -> UpareaValues]

InitUp ==
    /\ IsIndexArray(arr) \/ arr = StarArray
    /\ out = NoOut
    /\ d8 = NoGrid
    /\ flw = NoRaster
    /\ acc = NoAcc
    /\ rk = NoRk

CallUpstreamCount ==
    /\ out.op = "none"
    /\ \E mask \in Masks(arr), build \in Builds :
          out' = Outcome("upstream_count", mask, upstream_count(arr, mask), build)
    /\ UNCHANGED <<d8, flw, acc, arr, rk>>

CallUpstreamMatrix ==
    /\ out.op = "none"
    /\ \E build \in Builds :
          out' = Outcome("upstream_matrix", <<>>, upstream_matrix(arr), build)
    /\ UNCHANGED <<d8, flw, acc, arr, rk>>

CallMainUpstream ==
    /\ out.op = "none"
    /\ \E uparea \in Upareas(arr), upa_min \in UpaMinValues, build \in Builds :
          out' = Outcome("main_upstream", [uparea |-> uparea, upa_min |-> upa_min],
                         main_upstream(arr, uparea, upa_min), build)
    /\ UNCHANGED <<d8, flw, acc, arr, rk>>

NextUp == CallUpstreamCount \/ CallUpstreamMatrix \/ CallMainUpstream

SpecUp == InitUp /\ [][NextUp]_vars

\* the call named op has returned
Returned(op) == out.op = op /\ ~out.panic

\* every entry of the array is an index of the array
InRange(a) == \A i \in DOMAIN a : a[i] \in DOMAIN a

\* the mask of the call lets cell idx contribute
MaskAllows(mask, idx) == mask.some => mask.val[idx]

\* C11: the array upstream_count returns holds, for every target t, the
\* number of cells idx # t with idxs_ds[idx] = t (that the mask allows), and
\* without a restricting mask the counts sum to the number of cells that are
\* not self-loops.  The sum is stated for the arrays whose entries all lie in
\* 0..size-1.
C11_UpstreamCount ==
    Returned("upstream_count") =>
        /\ \A t \in DOMAIN arr :
              out.ret.n_up[t] =
                  Cardinality({idx \in Contributors(arr, t) : MaskAllows(out.args, idx)})
        /\ (InRange(arr) /\ (out.args.some => out.args.val = AllTrue(arr))) =>
              SumOver(out.ret.n_up, DOMAIN arr)
                  = Cardinality({i \in DOMAIN arr : arr[i] # i})

\* the largest number of cells draining directly into one cell
MaxFanIn(a) ==
    CHOOSE m \in 0..ArrLen(a) :
        /\ \A t \in DOMAIN a : Cardinality(Contributors(a, t)) <= m
        /\ \E t \in DOMAIN a : Cardinality(Contributors(a, t)) = m

\* C13: the table upstream_matrix returns has size rows and
\* max(1, largest upstream count) columns; row t holds the cells idx # t with
\* idxs_ds[idx] = t, all of them, in increasing order from column 0 on, and
\* the sentinel -1 in every column after them.
C13_UpstreamMatrix ==
    Returned("upstream_matrix") =>
        LET idxs_us == out.ret.idxs_us
            width == IF MaxFanIn(arr) > 1 THEN MaxFanIn(arr) ELSE 1
        IN  /\ DOMAIN idxs_us = DOMAIN arr
            /\ \A t \in DOMAIN arr :
                  LET n == Cardinality(Contributors(arr, t))
                  IN  /\ DOMAIN idxs_us[t] = 0..(width - 1)
                      /\ {idxs_us[t][k] : k \in 0..(n - 1)} = Contributors(arr, t)
                      /\ \A k \in 1..(n - 1) : idxs_us[t][k - 1] < idxs_us[t][k]
                      /\ \A k \in n..(width - 1) : idxs_us[t][k] = MV

(***************************************************************************)
(* Properties of d8_to_array (SpecBuild).                                  *)
(***************************************************************************)
Decoded == out.op = "d8_to_array"

\* every cell of the grid holds one of the 8 compass codes or PIT
OnlyValidCodes == \A i \in DOMAIN d8.data : d8.data[i] \in CompassCodes \cup {0}

\* exactly one cell of the grid holds PIT
ExactlyOnePit == Cardinality({i \in DOMAIN d8.data : d8.data[i] = 0}) = 1

\* C14 as stated: for a grid holding only valid codes and exactly one pit,
\* d8_to_array(d8_from_array(grid), shape) is the grid.
C14_Original ==
    (Decoded /\ OnlyValidCodes /\ ExactlyOnePit) => out.ret = d8

\* C14 amended: for a grid holding only valid codes and exactly one pit, and
\* in which every compass code points at a cell inside the grid,
\* d8_to_array(d8_from_array(grid), shape) is the grid.
C14_Amended ==
    (/\ Decoded
     /\ OnlyValidCodes
     /\ ExactlyOnePit
     /\ \A i \in DOMAIN d8.data : d8.data[i] # 0 => FlowsInGrid(i))
        => out.ret = d8

\* C14 witness: a decoded grid of one pit and all 8 compass codes, each
\* pointing inside the grid.
C14_Witness ==
    /\ Decoded
    /\ ExactlyOnePit
    /\ \A i \in DOMAIN d8.data : d8.data[i] # 0 => FlowsInGrid(i)
    /\ \A c \in CompassCodes : \E i \in DOMAIN d8.data : d8.data[i] = c
    /\ out.ret = d8

(***************************************************************************)
(* SpecCodec: drdc is called on a byte, or d8_to_array encodes the offset  *)
(* between a cell and its downstream cell.  d8 holds the byte as a grid of *)
(* one cell.  An offset (dr, dc) of {-1,0,1}^2 is handed to d8_to_array as *)
(* the centre cell of a 3 x 3 downstream array draining to the cell dr     *)
(* rows and dc columns away (every other cell is a self-loop).             *)
(***************************************************************************)
Offsets == {-1, 0, 1} \X {-1, 0, 1}

OffsetArray(dr, dc) == [i \in 0..8 |-> IF i = 4 THEN 4 + 3 * dr + dc ELSE i]

InitCodec ==
    /\ \E b \in Bytes : d8 = [nrows |-> 1, ncols |-> 1, data |-> [i \in {0} |-> b]]
    /\ out = NoOut
    /\ flw = NoRaster
    /\ acc = NoAcc
    /\ arr = NoArr
    /\ rk = NoRk

CallDrdc ==
    /\ out.op = "none"
    /\ out' = [op |-> "drdc", code |-> d8.data[0], ret |-> drdc(d8.data[0])]
    /\ UNCHANGED <<d8, flw, acc, arr, rk>>

CallEncode ==
    /\ out.op = "none"
    /\ \E o \in Offsets :
          out' = [op |-> "encode", dr |-> o[1], dc |-> o[2],
                  ret |-> d8_to_array(OffsetArray(o[1], o[2]), <<3, 3>>).data[4]]
    /\ UNCHANGED <<d8, flw, acc, arr, rk>>

NextCodec == CallDrdc \/ CallEncode

SpecCodec == InitCodec /\ [][NextCodec]_vars

\* C15: drdc gives each compass code its offset (E=(0,1), SE=(1,1), S=(1,0),
\* SW=(1,-1), W=(0,-1), NW=(-1,-1), N=(-1,0), NE=(-1,1)) and PIT and every
\* other byte (0,0); the 8 compass codes and the 8 non-zero offsets are in
\* bijection; and the code d8_to_array writes for an offset is the one drdc
\* maps back to that offset, for the 8 offsets and for the zero offset
\* (encoded as PIT).
C15_Codec ==
    /\ out.op = "drdc" =>
          /\ out.ret = IF out.code \in CompassCodes
                       THEN CompassOffset(out.code) ELSE <<0, 0>>
          /\ out.code \in CompassCodes =>
                d8_to_array(OffsetArray(out.ret[1], out.ret[2]), <<3, 3>>).data[4]
                    = out.code
    /\ out.op = "encode" =>
          /\ drdc(out.ret) = <<out.dr, out.dc>>
          /\ out.ret = 0 <=> (out.dr = 0 /\ out.dc = 0)
          /\ out.ret \in CompassCodes \cup {0}
    /\ {drdc(c) : c \in CompassCodes} = Offsets \ {<<0, 0>>}
    /\ \A c1, c2 \in CompassCodes : drdc(c1) = drdc(c2) => c1 = c2

\* C15 witness: the offset (-1, 1) was encoded as NE, which drdc maps back
\* to (-1, 1).
C15_Witness ==
    /\ out.op = "encode"
    /\ out.dr = -1 /\ out.dc = 1
    /\ out.ret = 128
    /\ drdc(out.ret) = <<-1, 1>>

(***************************************************************************)
(* SpecCache: a grid is handed to FlwdirRaster::from_array and             *)
(* FlwdirRaster::rank is then called on the instance, up to MaxCalls       *)
(* times.  out holds what the last call returned, whether core::rank ran   *)
(* during it, and the number of calls made so far.                         *)
(***************************************************************************)
MaxCalls == 3

FacadeCodes == {D8_E, D8_SE, D8_S, D8_W, D8_PIT, D8_NODATA}

InitCache ==
    /\ \E s \in Shapes :
          \E f \in [0..(s[1] * s[2] - 1) -> FacadeCodes] :
              d8 = [nrows |-> s[1], ncols |-> s[2], data |-> f]
    /\ flw = NoRaster
    /\ out = NoOut
    /\ acc = NoAcc
    /\ arr = NoArr
    /\ rk = NoRk

RankCalls == IF out.op = "rank" THEN out.nth ELSE 0

RankCall ==
    /\ flw.status = "ok"
    /\ RankCalls < MaxCalls
    /\ LET r == FacadeRank(flw)
       IN  /\ flw' = r.self
           /\ out' = [op |-> "rank", ret |-> r.ret, computed |-> r.computed,
                      nth |-> RankCalls + 1]
    /\ UNCHANGED <<d8, acc, arr, rk>>

NextCache == FromArray \/ RankCall

SpecCache == InitCache /\ [][NextCache]_vars

\* C16: over any sequence of FlwdirRaster::rank calls on one instance,
\* core::rank runs during a call exactly when the cache is empty (so on the
\* first call only); a filled cache is never changed; every call leaves the
\* cache holding the array it returns; and a call returns the same array as
\* the call before it.
C16_RankCachedOnce ==
    [][ /\ (flw.status = "ok" /\ flw.rank_cache.some) =>
              flw'.rank_cache = flw.rank_cache
        /\ (out'.op = "rank" /\ out' # out) =>
              /\ out'.computed <=> ~flw.rank_cache.some
              /\ out'.computed <=> out'.nth = 1
              /\ flw'.rank_cache = Some(out'.ret)
              /\ out.op = "rank" => out'.ret = out.ret
      ]_vars

\* C16 witness: a third call has returned from the cache, on a grid with a
\* cell that drains to a pit.
C16_Witness ==
    /\ out.op = "rank"
    /\ out.nth >= 3
    /\ ~out.computed
    /\ flw.rank_cache = Some(out.ret)
    /\ \E c \in DOMAIN out.ret : out.ret[c] = 1

Grid17 == [nrows |-> 2, ncols |-> 2, data |-> [i \in 0..3 |-> <<2, 4, 1, 0>>[i + 1]]]

\* C17: for the 2 x 2 grid [[2,4],[1,0]] the facade has the downstream array
\* [3,3,3,3], the pits [3] and the upstream counts [0,0,0,3], and rank
\* returns [1,1,1,0].
C17_Scenario ==
    (d8 = Grid17 /\ Built) =>
        /\ flw.idxs_ds = [i \in 0..3 |-> 3]
        /\ flw.pit_indices = <<3>>
        /\ flw.upstream_counts = [i \in 0..3 |-> IF i = 3 THEN 3 ELSE 0]
        /\ out.op = "rank" => out.ret = [i \in 0..3 |-> IF i = 3 THEN 0 ELSE 1]

\* C17 witness: rank has returned on the facade of that grid.
C17_Witness ==
    /\ d8 = Grid17
    /\ Built
    /\ out.op = "rank"
    /\ out.ret[0] = 1 /\ out.ret[3] = 0

Grid18 == [nrows |-> 2, ncols |-> 2, data |-> [i \in 0..3 |-> <<1, 2, 2, 2>>[i + 1]]]

\* C18 as stated: the downstream graph built from the 2 x 2 grid
\* [[1,2],[2,2]] contains a cycle; rank gives every cell on the cycle the
\* Invalid sentinel -1 and no other cell.
C18_Original ==
    (d8 = Grid18 /\ out.op = "rank") =>
        /\ \E c \in DOMAIN flw.idxs_ds : OnCycle(flw.idxs_ds, c)
        /\ \A c \in DOMAIN flw.idxs_ds : OnCycle(flw.idxs_ds, c) <=> out.ret[c] = -1

\* C18 amended: the downstream array built from the 2 x 2 grid [[1,2],[2,2]]
\* is [1,1,2,3]: cells 1, 2 and 3 point outside the grid and are self-loops,
\* so the graph has no cycle of two or more cells; rank returns [1,0,0,0] and
\* gives no cell the Invalid sentinel -1.
C18_Amended ==
    (d8 = Grid18 /\ Built) =>
        /\ flw.idxs_ds = [i \in 0..3 |-> IF i = 0 THEN 1 ELSE i]
        /\ \A c \in DOMAIN flw.idxs_ds : ~OnCycle(flw.idxs_ds, c)
        /\ out.op = "rank" =>
              /\ out.ret = [i \in 0..3 |-> IF i = 0 THEN 1 ELSE 0]
              /\ \A c \in DOMAIN out.ret : out.ret[c] # -1

\* C18 witness: rank has returned on the facade of that grid, whose cells
\* 1, 2 and 3 are not valid.
C18_Witness ==
    /\ d8 = Grid18
    /\ out.op = "rank"
    /\ \A c \in 1..3 : ~is_valid(flw, c) /\ out.ret[c] = 0
    /\ is_valid(flw, 0) /\ out.ret[0] = 1

(***************************************************************************)
(* Properties of main_upstream (SpecUp).                                   *)
(***************************************************************************)
\* the cells draining directly into t whose magnitude exceeds upa_min
Candidates(a, uparea, upa_min, t) ==
    {u \in Contributors(a, t) : uparea[u] > upa_min}

\* C19: main_upstream returns for every cell t the cell draining directly
\* into t with the largest magnitude among those strictly above upa_min, the
\* lowest index among equals, and the sentinel -1 when no cell draining into
\* t has a magnitude above upa_min; a returned index u has idxs_ds[u] = t and
\* u # t.
C19_MainUpstream ==
    Returned("main_upstream") =>
        \A t \in DOMAIN arr :
            LET u == out.ret.idxs_us_main[t]
                cand == Candidates(arr, out.args.uparea, out.args.upa_min, t)
            IN  /\ cand = {} => u = MV
                /\ cand # {} =>
                      /\ u \in cand
                      /\ \A v \in cand :
                            \/ out.args.uparea[v] < out.args.uparea[u]
                            \/ out.args.uparea[v] = out.args.uparea[u] /\ u <= v
                /\ u # MV => (arr[u] = t /\ u # t)

(***************************************************************************)
(* Properties of pit_indices (SpecBuild).                                  *)
(***************************************************************************)
\* C20: the pit list of the facade, which is pit_indices(idxs_ds), holds
\* exactly the indices i with idxs_ds[i] = i, each once and in increasing
\* order; a cell holding PIT and a cell whose code is not recognised or
\* points outside the grid are in it alike.
C20_PitIndices ==
    Built =>
        LET pits == flw.pit_indices
        IN  /\ pits = pit_indices(flw.idxs_ds)
            /\ \A q \in 1..(Len(pits) - 1) : pits[q] < pits[q + 1]
            /\ {pits[q] : q \in 1..Len(pits)}
                  = {i \in DOMAIN flw.idxs_ds : flw.idxs_ds[i] = i}
            /\ \A i \in DOMAIN d8.data :
                  (d8.data[i] = 0 \/ ~FlowsInGrid(i)) =>
                      \E q \in 1..Len(pits) : pits[q] = i

\* C20 witness: a built grid of 9 cells (one chunk of 8 and a remainder)
\* with a PIT cell and a NODATA cell in the list and a draining cell that is
\* not in it.
C20_Witness ==
    /\ Built
    /\ d8.nrows * d8.ncols = 9
    /\ \E p, v, c \in DOMAIN d8.data :
          /\ d8.data[p] = 0 /\ d8.data[v] = 255 /\ flw.idxs_ds[c] # c
          /\ \E q, r \in 1..Len(flw.pit_indices) :
                q < r /\ flw.pit_indices[q] = p /\ flw.pit_indices[r] = v
          /\ \A q \in 1..Len(flw.pit_indices) : flw.pit_indices[q] # c

(***************************************************************************)
(* accuflux at the cells nothing drains into.                              *)
(***************************************************************************)
\* C21: accuflux returns, for every cell with zero upstream contributors, 1
\* when no weights are passed and the cell's own weight when a weight array
\* is passed.
C21_LeafValue ==
    AccuDone =>
        \A i \in DOMAIN flw.idxs_ds :
            Contributors(flw.idxs_ds, i) = {} =>
                acc.flux[i] = IF acc.weights.some THEN acc.weights.val[i] ELSE 1

\* C21 witness: accuflux has returned for a weight array; a cell without
\* contributors holds its weight of 5 and has pushed it into its downstream
\* cell, which holds more than its own weight.
C21_Witness ==
    /\ AccuDone
    /\ acc.weights.some
    /\ \E i, t \in DOMAIN flw.idxs_ds :
        /\ Contributors(flw.idxs_ds, i) = {}
        /\ flw.idxs_ds[i] = t /\ t # i
        /\ acc.weights.val[i] = 5 /\ acc.flux[i] = 5
        /\ acc.weights.val[t] = 2 /\ acc.flux[t] >= 7

(***************************************************************************)
(* The steps of core::rank, one cell at a time (SpecRank).                 *)
(***************************************************************************)
\* C22: during rank every step that changes a cell's entry changes it from
\* unprocessed (-9999) to a value >= -1, so an entry changes at most once
\* and is never rewritten; every cell on the path of a walk was unprocessed
\* when the step put it there; and a walk that reaches a cell holding a
\* rank or the Invalid sentinel ends with that step.
C22_ResolvedOnce ==
    [][/\ \A i \in DOMAIN arr :
            rk'.ranks[i] # rk.ranks[i] =>
                rk.ranks[i] = UNPROCESSED /\ rk'.ranks[i] >= -1
       /\ rk'.pc = "walk" =>
            \A j \in 1..Len(rk'.idxs_lst) :
                rk.ranks[rk'.idxs_lst[j]] = UNPROCESSED
       /\ (/\ rk.pc = "walk"
           /\ rk.idx_ds \in DOMAIN arr
           /\ rk.ranks[rk.idx_ds] # UNPROCESSED) => rk'.pc # "walk"
      ]_vars

\* C22 witness: a walk of two cells or more has just ended at a cell off
\* the path that an earlier walk resolved to a rank, in a run that has also
\* marked a cell Invalid.
C22_Witness ==
    /\ rk.pc = "assign"
    /\ rk.k = Len(rk.idxs_lst)
    /\ Len(rk.idxs_lst) >= 2
    /\ LET t == arr[rk.idxs_lst[Len(rk.idxs_lst)]]
       IN  /\ t \in DOMAIN arr
           /\ \A j \in 1..Len(rk.idxs_lst) : rk.idxs_lst[j] # t
           /\ rk.ranks[t] >= 0
           /\ rk.rnk = rk.ranks[t]
    /\ \E w \in DOMAIN arr : rk.ranks[w] = -1

\* C23: the count rank returns as its second result is the number of cells
\* whose returned rank is >= 0; cells returned with the Invalid sentinel -1
\* (or left unprocessed) are not counted.
C23_CountOfRanked ==
    RankDone =>
        rk.n_count = Cardinality({c \in DOMAIN arr : rk.ranks[c] >= 0})

\* C23 witness: rank has returned the count 2 for an array of four cells: a
\* pit, a cell draining into it, a cell returned Invalid and a cell left
\* unprocessed.
C23_Witness ==
    /\ RankDone
    /\ ArrLen(arr) = 4
    /\ rk.n_count = 2
    /\ \E p, c, w, m \in DOMAIN arr :
        /\ arr[p] = p /\ rk.ranks[p] = 0
        /\ arr[c] = p /\ rk.ranks[c] = 1
        /\ rk.ranks[w] = -1
        /\ rk.ranks[m] = UNPROCESSED

(***************************************************************************)
(* The order of the sequence idxs_seq returns (SpecSeq).                   *)
(***************************************************************************)
\* C24: the sequence idxs_seq(idxs_ds, pit_indices(idxs_ds)) is ordered by
\* non-decreasing rank: every cell in it has a rank >= 0, no cell stands
\* before a cell of strictly smaller rank, and the pits of the array, all of
\* them, fill the first positions.
C24_SeqByRank ==
    SeqReturned =>
        LET seq == out.ret.seq
            r == RanksOf(arr)
            pits == {c \in DOMAIN arr : arr[c] = c}
        IN  /\ \A q \in 1..Len(seq) : seq[q] \in DOMAIN arr /\ r[seq[q]] >= 0
            /\ \A q, s \in 1..Len(seq) : q < s => r[seq[q]] <= r[seq[s]]
            /\ Len(seq) >= Cardinality(pits)
            /\ {seq[q] : q \in 1..Cardinality(pits)} = pits

\* C24 witness: a returned sequence of four cells, two pits first, then a
\* cell one hop from the first pit, then a cell two hops from it, for an
\* array that holds these cells in the opposite index order.
C24_Witness ==
    /\ SeqReturned
    /\ Len(out.ret.seq) = 4
    /\ LET seq == out.ret.seq
       IN  /\ arr[seq[1]] = seq[1]
           /\ arr[seq[2]] = seq[2]
           /\ arr[seq[3]] = seq[1]
           /\ arr[seq[4]] = seq[3]
           /\ seq[4] < seq[3] /\ seq[3] < seq[1]

====
